---- MODULE Spec2Model ----
(***************************************************************************)
(* Waitlist enrollment, referral ledger and drip-campaign scheduler of the *)
(* newsletter-waitlist server (server/payment.ts, server/stripe-webhook.ts,*)
(* server/referralTracking.ts, server/referral.ts, server/emailSequence.ts,*)
(* server/email.ts).  Every awaited database or provider call of a handler *)
(* is one atomic step; handlers of different requests interleave between   *)
(* their awaits.                                                           *)
(***************************************************************************)
EXTENDS Integers, Sequences, FiniteSets, Bags, TLC

VARIABLES
    entries,          \* table waitlist_entries, row id = index (AUTO_INCREMENT)
    referrals,        \* table referral_tracking, row id = index (AUTO_INCREMENT)
    sessions,         \* the checkout provider's sessions, session id = index
    checkouts,        \* createCheckoutSession calls between their two awaits, a bag
    nextCode,         \* source of fresh nanoid(8) tokens
    insertIdVisible,  \* whether the driver's insert result exposes .insertId
    proc,             \* per request handler: position and local variables
    returned,         \* per email: queue positions returned by successful signups
    outbox,           \* per email: signup notifications handed to the mail provider
    now,              \* wall clock, in ticks
    tracking,         \* table email_sequence_tracking, a bag of rows
    prefs,            \* table subscriber_preferences, a set of rows
    mail,             \* log of the drip campaign's sendEmail calls, a bag
    run               \* per scheduler run: position and local variables

storeVars == <<entries, referrals, sessions, checkouts, nextCode, insertIdVisible>>
signupVars == <<entries, referrals, sessions, checkouts, nextCode, insertIdVisible, proc, returned, outbox>>
schedVars == <<now, tracking, prefs, mail, run>>
vars == <<entries, referrals, sessions, checkouts, nextCode, insertIdVisible, proc, returned, outbox,
          now, tracking, prefs, mail, run>>

(***************************************************************************)
(* Bounds of the model                                                     *)
(***************************************************************************)
NEmails == 2          \* addresses that sign up
NProcs == 2           \* request handlers that may be in flight together
MaxSessions == 1      \* checkout sessions ever opened
NReferrers == 1       \* addresses that sign up in the referral-ledger specifications
NRefEmails == 4       \* addresses named in direct recordReferral calls
NOverlapEmails == 3   \* ... in direct recordReferral calls that overlap

Emails == 1..NEmails
Procs == 1..NProcs
Referrers == 1..NReferrers
RefEmails == 1..NRefEmails
OverlapEmails == 1..NOverlapEmails

(***************************************************************************)
(* Program constants                                                       *)
(***************************************************************************)
NoCode == 0           \* referralCode || "" : the empty string / NULL column
BadCode == 0 - 1      \* a referral code no entry holds
VipThreshold == 3     \* successfulReferrals >= 3

NoRow == [id |-> 0, successfulReferrals |-> 0, isVip |-> FALSE]
NoRes == [kind |-> "none", queuePosition |-> 0, referralCode |-> NoCode,
          isVip |-> FALSE, successfulReferrals |-> 0]
ErrorRes == [NoRes EXCEPT !.kind = "error"]
\* the webhook's HTTP answer {received: true}
ReceivedRes == [NoRes EXCEPT !.kind = "received"]
\* an id the AUTO_INCREMENT counter gave to an insert that stored no row
NoEntry == [email |-> 0, queuePosition |-> 0, paymentStatus |-> "none",
            stripePaymentIntentId |-> "null", referralCode |-> NoCode, isVip |-> FALSE,
            successfulReferrals |-> 0, createdAt |-> 0]
NoSession == 0        \* a session id the provider does not know
\* messages of one signup the mail provider accepted: the receipt or boarding
\* pass, and the internal notification about it
NoMail == [mail |-> 0, internal |-> 0]
\* no row of referral_tracking; in the table, an id the AUTO_INCREMENT counter gave
\* to an insert that stored no row
NoRef == [id |-> 0, referrerId |-> 0, referredId |-> 0, referredEmail |-> 0,
          referralCode |-> 0]
Idle == [pc |-> "idle", op |-> "none", email |-> 0, qp |-> 0, pi |-> "null", lastId |-> 0,
         code |-> NoCode, refCode |-> NoCode, referrer |-> NoRow, ref |-> NoRef,
         refRes |-> "none", sent |-> "none", res |-> NoRes]

(***************************************************************************)
(* Conversions of the queue position carried in the session metadata       *)
(***************************************************************************)
RECURSIVE NumToStr(_)
\* queuePosition.toString(): the decimal digits, most significant first
NumToStr(n) == IF n < 10 THEN <<n>> ELSE Append(NumToStr(n \div 10), n % 10)

RECURSIVE DigitsValue(_)
DigitsValue(s) == IF s = <<>> THEN 0
                  ELSE 10 * DigitsValue(SubSeq(s, 1, Len(s) - 1)) + s[Len(s)]

\* parseInt(session.metadata.queuePosition || "1", 10)
parseInt(s) == IF s = <<>> THEN DigitsValue(<<1>>) ELSE DigitsValue(s)

(***************************************************************************)
(* Queries on the entry store                                              *)
(***************************************************************************)
\* ids of the stored rows: the ids handed out so far that hold a row
EntryIds == {i \in 1..Len(entries) : entries[i] # NoEntry}

SetMax(S) == CHOOSE x \in S : \A y \in S : y <= x
SetMin(S) == CHOOSE x \in S : \A y \in S : x <= y

\* ids and rows of the stored referral records
ReferralIds == {i \in 1..Len(referrals) : referrals[i] # NoRef}
ReferralRows == {referrals[i] : i \in ReferralIds}

\* `REF-${Date.now()}-${random}` (part_005 line 55): a token no other record
\* carries, here the negated id of the record it is made for
RefToken(id) == 0 - id

\* select().from(waitlistEntries).where(eq(email, e)).limit(1)
FindByEmail(e) == {i \in EntryIds : entries[i].email = e}

\* getTotalWaitlistCount: the largest stored queue position, 0 when empty
getTotalWaitlistCount ==
    IF EntryIds = {} THEN 0 ELSE SetMax({entries[i].queuePosition : i \in EntryIds})

\* a next position that leaves one position out
getNextQueuePositionSkipping == getTotalWaitlistCount + 2

\* getNextQueuePosition: (result[0]?.queuePosition || 0) + 1
getNextQueuePosition == getTotalWaitlistCount + 1

\* verifyReferralCode: the entry holding the code, 0 for null
verifyReferralCode(code) ==
    LET m == {i \in EntryIds : entries[i].referralCode = code}
    IN IF code = NoCode \/ m = {} THEN 0 ELSE SetMin(m)

\* a guard that answers with a freshly computed position, not the stored one
ExistingResultFresh(i) ==
    [kind |-> "signup", queuePosition |-> getNextQueuePosition,
     referralCode |-> entries[i].referralCode, isVip |-> entries[i].isVip,
     successfulReferrals |-> entries[i].successfulReferrals]

\* the idempotency guard's answer: the stored row's fields
ExistingResult(i) ==
    [kind |-> "signup", queuePosition |-> entries[i].queuePosition,
     referralCode |-> entries[i].referralCode, isVip |-> entries[i].isVip,
     successfulReferrals |-> entries[i].successfulReferrals]

\* an insert that leaves paymentStatus to the column default
NewEntryDefaultStatus(e, q, status, pi) ==
    [email |-> e, queuePosition |-> q, paymentStatus |-> "pending",
     stripePaymentIntentId |-> "null",
     referralCode |-> NoCode, isVip |-> FALSE, successfulReferrals |-> 0,
     createdAt |-> now]

\* db.insert(waitlistEntries).values({...}): defaults of the other columns; the
\* payment references (stripePaymentIntentId, stripeCustomerId) are among the
\* values of the completed insert only, pi = session.payment_intent?.toString()
\* of the session as it was retrieved
NewEntry(e, q, status, pi) ==
    [email |-> e, queuePosition |-> q, paymentStatus |-> status,
     stripePaymentIntentId |-> IF status = "completed" THEN pi ELSE "null",
     referralCode |-> NoCode, isVip |-> FALSE, successfulReferrals |-> 0,
     createdAt |-> now]

\* (newEntry as any).insertId || queuePosition
LastInsertId(newId, q) == IF insertIdVisible THEN newId ELSE q

\* codes a visitor could present if the next token were known before it is minted
KnownCodesGuessable == 1..nextCode

\* referral codes a visitor can present: codes in circulation, or an unknown one
KnownCodes == {entries[i].referralCode : i \in EntryIds} \ {NoCode}

AllQuiet == checkouts = EmptyBag /\ \A q \in Procs : proc[q].pc = "idle"
Free(p) == proc[p].pc = "idle"

\* what the caller of handlePaymentSuccess hands on: confirmPayment answers with
\* the result or "Failed to confirm payment" (payment.ts 279-291); the webhook logs
\* the result or the error and answers {received: true} (stripe-webhook.ts 49-54, 75)
Answer(pr, r) == IF pr.op = "webhook" THEN ReceivedRes ELSE r

Finish(pr, r) == [Idle EXCEPT !.pc = "done", !.op = pr.op, !.email = pr.email,
                              !.refCode = pr.refCode, !.referrer = pr.referrer,
                              !.refRes = pr.refRes, !.sent = pr.sent,
                              !.res = Answer(pr, r)]

Record(e, r) == [returned EXCEPT ![e] = @ \cup {r.queuePosition}]

\* the positions clients were answered with: the webhook's caller is the provider,
\* which is told no position
Returned(pr, r) == IF Answer(pr, r).kind = "signup" THEN Record(pr.email, r) ELSE returned

(***************************************************************************)
(* Checkout provider                                                       *)
(***************************************************************************)
SessionIds == 1..Len(sessions)

\* the session the call in flight c opens
NewSession(c) ==
    [email |-> c.email, queuePosition |-> NumToStr(c.queuePosition),
     referralCode |-> c.referralCode, status |-> "open"]

\* createCheckoutSession line 36: const queuePosition = await getNextQueuePosition()
createCheckoutSession(e, rc) ==
    /\ Len(sessions) + BagCardinality(checkouts) < MaxSessions
    /\ checkouts' = checkouts (+) SetToBag(
           {[email |-> e, queuePosition |-> getNextQueuePosition, referralCode |-> rc]})
    /\ UNCHANGED <<entries, referrals, sessions, nextCode, insertIdVisible, proc, returned, outbox>>
    /\ UNCHANGED schedVars

\* lines 38-65 and 71: stripe.checkout.sessions.create with the position read
\* before the await as metadata.queuePosition; the call answers session.url
checkoutSessionsCreate(c) ==
    /\ sessions' = Append(sessions, NewSession(c))
    /\ checkouts' = checkouts (-) SetToBag({c})
    /\ UNCHANGED <<entries, referrals, nextCode, insertIdVisible, proc, returned, outbox>>
    /\ UNCHANGED schedVars

\* the provider rejects the create, or answers without a url (lines 67-69):
\* createCheckout answers "Failed to create checkout session" (lines 270-273)
checkoutSessionsCreateFails(c) ==
    /\ checkouts' = checkouts (-) SetToBag({c})
    /\ UNCHANGED <<entries, referrals, sessions, nextCode, insertIdVisible, proc, returned, outbox>>
    /\ UNCHANGED schedVars

\* the visitor pays on the hosted page
SessionPaid(s) ==
    /\ sessions[s].status = "open"
    /\ sessions' = [sessions EXCEPT ![s].status = "paid"]
    /\ UNCHANGED <<entries, referrals, checkouts, nextCode, insertIdVisible, proc, returned, outbox>>
    /\ UNCHANGED schedVars

\* the visitor never completes the payment (failed charges, abandonment):
\* the provider expires the session
SessionExpired(s) ==
    /\ sessions[s].status = "open"
    /\ sessions' = [sessions EXCEPT ![s].status = "expired"]
    /\ UNCHANGED <<entries, referrals, checkouts, nextCode, insertIdVisible, proc, returned, outbox>>
    /\ UNCHANGED schedVars

(***************************************************************************)
(* handlePaymentSuccess                                                    *)
(***************************************************************************)
\* session.payment_intent?.toString(): the provider attaches a payment intent
\* to a session once it is paid
PaymentIntent(s) == IF sessions[s].status = "paid" THEN "payment_intent" ELSE "null"

\* lines 80-89: await stripe.checkout.sessions.retrieve(sessionId), then the
\* metadata is read; the retrieve rejects for an id the provider does not know.
\* Every session createCheckoutSession opens carries customer_email and
\* metadata.email, so the throw of lines 82-84 is met by no session of the model.
hpsRetrieve(p, s, viaOp) ==
    IF s \in SessionIds
    THEN proc' = [proc EXCEPT ![p] =
             [Idle EXCEPT !.pc = "hps_select", !.op = viaOp,
                          !.email = sessions[s].email,
                          !.qp = parseInt(sessions[s].queuePosition),
                          !.pi = PaymentIntent(s),
                          !.refCode = sessions[s].referralCode]]
    ELSE proc' = [proc EXCEPT ![p] = Finish([Idle EXCEPT !.op = viaOp], ErrorRes)]

\* paymentRouter.confirmPayment: the client presents a session id
confirmPayment(p, s) ==
    /\ Free(p)
    /\ hpsRetrieve(p, s, "confirm")
    /\ UNCHANGED <<entries, referrals, sessions, checkouts, nextCode, insertIdVisible, returned, outbox>>
    /\ UNCHANGED schedVars

\* setupStripeWebhook, case "checkout.session.completed" (lines 44-57): the event
\* is sent for a session that left the open state; its payload carries the
\* payment_status of that moment, which the provider does not change afterwards.
\* Only a paid payload leads to handlePaymentSuccess(session.id).
stripeWebhook(p, s) ==
    /\ Free(p)
    /\ sessions[s].status # "open"
    /\ IF sessions[s].status = "paid"
       THEN hpsRetrieve(p, s, "webhook")
       ELSE UNCHANGED proc
    /\ UNCHANGED <<entries, referrals, sessions, checkouts, nextCode, insertIdVisible, returned, outbox>>
    /\ UNCHANGED schedVars

\* lines 95-109: the idempotency guard, a select by the session's email
hpsSelect(p) ==
    LET pr == proc[p]
        ex == FindByEmail(pr.email)
    IN /\ pr.pc = "hps_select"
       /\ IF ex # {}
          THEN /\ proc' = [proc EXCEPT ![p] = Finish(pr, ExistingResult(SetMin(ex)))]
               /\ returned' = Returned(pr, ExistingResult(SetMin(ex)))
          ELSE /\ proc' = [proc EXCEPT ![p].pc = "hps_insert"]
               /\ UNCHANGED returned
       /\ UNCHANGED <<entries, referrals, sessions, checkouts, nextCode, insertIdVisible, outbox>>
       /\ UNCHANGED schedVars

\* where the AUTO_INCREMENT counter stands after an insert that failed on the
\* unique index: the engine may have handed out an id for it (InnoDB does)
AfterFailedInsert == {entries, Append(entries, NoEntry)}

\* an insert into a table without the unique index on email
InsertEntryNoUnique(p, status) ==
    LET pr == proc[p]
    IN /\ entries' = Append(entries, NewEntry(pr.email, pr.qp, status, pr.pi))
       /\ proc' = [proc EXCEPT ![p] =
              [pr EXCEPT !.pc = "gen_select",
                         !.lastId = LastInsertId(Len(entries) + 1, pr.qp)]]

\* an insert that may hit waitlist_entries_email_unique
InsertEntry(p, status) ==
    LET pr == proc[p]
    IN IF FindByEmail(pr.email) # {}
       THEN /\ proc' = [proc EXCEPT ![p] = Finish(pr, ErrorRes)]
            /\ entries' \in AfterFailedInsert
       ELSE /\ entries' = Append(entries, NewEntry(pr.email, pr.qp, status, pr.pi))
            /\ proc' = [proc EXCEPT ![p] =
                   [pr EXCEPT !.pc = "gen_select",
                              !.lastId = LastInsertId(Len(entries) + 1, pr.qp)]]

\* lines 113-124: insert the entry as completed
hpsInsert(p) ==
    /\ proc[p].pc = "hps_insert"
    /\ InsertEntry(p, "completed")
    /\ UNCHANGED <<referrals, sessions, checkouts, nextCode, insertIdVisible, returned, outbox>>
    /\ UNCHANGED schedVars

(***************************************************************************)
(* addToWaitlistWithoutPayment                                             *)
(***************************************************************************)
\* a join that re-queues an address it already holds at the end of the line
joinWaitlistUpsert(p, e) ==
    LET pr == [Idle EXCEPT !.op = "join", !.email = e]
        ex == FindByEmail(e)
    IN /\ Free(p)
       /\ IF ex # {}
          THEN /\ entries' = [entries EXCEPT ![SetMin(ex)].queuePosition = getNextQueuePosition]
               /\ proc' = [proc EXCEPT ![p] = Finish(pr, ExistingResult(SetMin(ex)))]
               /\ returned' = Record(e, ExistingResult(SetMin(ex)))
          ELSE /\ proc' = [proc EXCEPT ![p] = [pr EXCEPT !.pc = "join_pos"]]
               /\ UNCHANGED <<entries, returned>>
       /\ UNCHANGED <<referrals, sessions, checkouts, nextCode, insertIdVisible, outbox>>
       /\ UNCHANGED schedVars

\* lines 173-187: idempotency guard
joinWaitlistWithoutPayment(p, e) ==
    LET pr == [Idle EXCEPT !.op = "join", !.email = e]
        ex == FindByEmail(e)
    IN /\ Free(p)
       /\ IF ex # {}
          THEN /\ proc' = [proc EXCEPT ![p] = Finish(pr, ExistingResult(SetMin(ex)))]
               /\ returned' = Record(e, ExistingResult(SetMin(ex)))
          ELSE /\ proc' = [proc EXCEPT ![p] = [pr EXCEPT !.pc = "join_pos"]]
               /\ UNCHANGED returned
       /\ UNCHANGED <<entries, referrals, sessions, checkouts, nextCode, insertIdVisible, outbox>>
       /\ UNCHANGED schedVars

\* Home.tsx handleSkipPayment: the request carries the email (and first name)
\* only; refCode keeps the code the visitor arrived with (sessionStorage), which
\* is not part of the request
handleSkipPayment(p, e, rc) ==
    LET pr == [Idle EXCEPT !.op = "join", !.email = e, !.refCode = rc]
        ex == FindByEmail(e)
    IN /\ Free(p)
       /\ IF ex # {}
          THEN /\ proc' = [proc EXCEPT ![p] = Finish(pr, ExistingResult(SetMin(ex)))]
               /\ returned' = Record(e, ExistingResult(SetMin(ex)))
          ELSE /\ proc' = [proc EXCEPT ![p] = [pr EXCEPT !.pc = "join_pos"]]
               /\ UNCHANGED returned
       /\ UNCHANGED <<entries, referrals, sessions, checkouts, nextCode, insertIdVisible, outbox>>
       /\ UNCHANGED schedVars

\* line 189: const queuePosition = await getNextQueuePosition()
joinPosition(p) ==
    /\ proc[p].pc = "join_pos"
    /\ proc' = [proc EXCEPT ![p].pc = "join_insert", ![p].qp = getNextQueuePosition]
    /\ UNCHANGED <<entries, referrals, sessions, checkouts, nextCode, insertIdVisible, returned, outbox>>
    /\ UNCHANGED schedVars

\* lines 191-199: insert the entry as skipped
joinInsert(p) ==
    /\ proc[p].pc = "join_insert"
    /\ InsertEntry(p, "skipped")
    /\ UNCHANGED <<referrals, sessions, checkouts, nextCode, insertIdVisible, returned, outbox>>
    /\ UNCHANGED schedVars

(***************************************************************************)
(* generateReferralCode(lastInsertId)                                      *)
(***************************************************************************)
\* a code step after which every path records the referral of the visitor's code
AfterCodeAnyPath(pr) == IF pr.refCode # NoCode THEN "ref_verify" ELSE "notify"

\* handlePaymentSuccess lines 127-144 record the referral of the session's code;
\* addToWaitlistWithoutPayment (lines 198-206) has no such step
AfterCode(pr) == IF pr.op \in {"confirm", "webhook"} /\ pr.refCode # NoCode
                 THEN "ref_verify" ELSE "notify"

\* lines 15-23: return the stored code when the row has one
generateReferralCodeSelect(p) ==
    LET pr == proc[p]
        id == pr.lastId
    IN /\ pr.pc = "gen_select"
       /\ IF id \in EntryIds /\ entries[id].referralCode # NoCode
          THEN proc' = [proc EXCEPT ![p] = [pr EXCEPT !.code = entries[id].referralCode,
                                                      !.pc = AfterCode(pr)]]
          ELSE proc' = [proc EXCEPT ![p].pc = "gen_update"]
       /\ UNCHANGED <<entries, referrals, sessions, checkouts, nextCode, insertIdVisible, returned, outbox>>
       /\ UNCHANGED schedVars

\* lines 26-35: mint a token and store it on the row with that id
generateReferralCodeUpdate(p) ==
    LET pr == proc[p]
        id == pr.lastId
    IN /\ pr.pc = "gen_update"
       /\ entries' = IF id \in EntryIds
                     THEN [entries EXCEPT ![id].referralCode = nextCode]
                     ELSE entries
       /\ nextCode' = nextCode + 1
       /\ proc' = [proc EXCEPT ![p] = [pr EXCEPT !.code = nextCode, !.pc = AfterCode(pr)]]
       /\ UNCHANGED <<referrals, sessions, checkouts, insertIdVisible, returned, outbox>>
       /\ UNCHANGED schedVars

(***************************************************************************)
(* recordReferral(referralCode, newUserEmail, newUserId)                   *)
(***************************************************************************)
\* a caller without the try/catch: a failed referral is the request's failure
HandbackPropagates(pr, outcome, r) ==
    IF pr.op = "refer" \/ outcome \in {"invalid", "failed"}
    THEN Finish([pr EXCEPT !.refRes = outcome], r)
    ELSE [pr EXCEPT !.refRes = outcome, !.pc = "notify"]

\* where a recordReferral call hands back: the direct caller gets the result,
\* handlePaymentSuccess goes on to its notifications (also after a throw)
Handback(pr, outcome, r) ==
    IF pr.op = "refer"
    THEN Finish([pr EXCEPT !.refRes = outcome], r)
    ELSE [pr EXCEPT !.refRes = outcome, !.pc = "notify"]

\* the call's answer; refRes holds {success, referrerPromotedToVip}:
\* "credited" = {true, false}, "promoted" = {true, true}, "duplicate" = {false, false}
ReferralRes == [NoRes EXCEPT !.kind = "referral"]

\* lines 32-36: verifyReferralCode, throw on an unknown code
Verify(p, pr) ==
    LET r == verifyReferralCode(pr.refCode)
    IN IF r = 0
       THEN proc' = [proc EXCEPT ![p] = Handback(pr, "invalid", ErrorRes)]
       ELSE proc' = [proc EXCEPT ![p] =
                [pr EXCEPT !.pc = "ref_existing",
                           !.referrer = [id |-> r,
                               successfulReferrals |-> entries[r].successfulReferrals,
                               isVip |-> entries[r].isVip]]]

\* handlePaymentSuccess lines 130-137: recordReferral(code, email, lastInsertId)
recordReferralVerify(p) ==
    /\ proc[p].pc = "ref_verify"
    /\ Verify(p, proc[p])
    /\ UNCHANGED <<entries, referrals, sessions, checkouts, nextCode, insertIdVisible, returned, outbox>>
    /\ UNCHANGED schedVars

\* a direct call of the exported recordReferral
recordReferral(p, code, e) ==
    /\ Free(p)
    /\ Verify(p, [Idle EXCEPT !.op = "refer", !.email = e, !.refCode = code,
                              !.lastId = IF FindByEmail(e) = {} THEN 0
                                         ELSE SetMin(FindByEmail(e))])
    /\ UNCHANGED <<entries, referrals, sessions, checkouts, nextCode, insertIdVisible, returned, outbox>>
    /\ UNCHANGED schedVars

\* a duplicate check that compares the referrer only with itself and finds nothing
SameReferralNever(rec, referrerId, e) == rec.referrerId = referrerId /\ rec.referrerId # referrerId

\* the duplicate check's where clause: same referrer and same referred email
SameReferral(rec, referrerId, e) == rec.referrerId = referrerId /\ rec.referredEmail = e

ExistingReferral(referrerId, e) ==
    {rec \in ReferralRows : SameReferral(rec, referrerId, e)}

\* lines 38-52: a record for (referrer, email) makes the call a no-op
recordReferralExisting(p) ==
    LET pr == proc[p]
    IN /\ pr.pc = "ref_existing"
       /\ IF ExistingReferral(pr.referrer.id, pr.email) # {}
          THEN proc' = [proc EXCEPT ![p] = Handback(pr, "duplicate", ReferralRes)]
          ELSE proc' = [proc EXCEPT ![p].pc = "ref_insert"]
       /\ UNCHANGED <<entries, referrals, sessions, checkouts, nextCode, insertIdVisible, returned, outbox>>
       /\ UNCHANGED schedVars

\* lines 54-64: insert the ReferralRecord
recordReferralInsert(p) ==
    LET pr == proc[p]
    IN /\ pr.pc = "ref_insert"
       /\ referrals' = Append(referrals,
              [id |-> Len(referrals) + 1, referrerId |-> pr.referrer.id,
               referredId |-> pr.lastId, referredEmail |-> pr.email,
               referralCode |-> RefToken(Len(referrals) + 1)])
       /\ proc' = [proc EXCEPT ![p].pc = "ref_update"]
       /\ UNCHANGED <<entries, sessions, checkouts, nextCode, insertIdVisible, returned, outbox>>
       /\ UNCHANGED schedVars

\* line 67: (referrer.successfulReferrals || 0) + 1, from the row read at line 33
NewCount(referrer) == referrer.successfulReferrals + 1

\* a promotion that waits for one referral more than the threshold
shouldPromoteLate(referrer) ==
    referrer.successfulReferrals + 1 > VipThreshold /\ ~referrer.isVip

\* line 70: successfulReferrals >= 3 && !referrer.isVip
shouldPromoteToVip(referrer) == NewCount(referrer) >= VipThreshold /\ ~referrer.isVip

\* line 77: isVip: shouldPromoteToVip ? true : referrer.isVip
NewVip(referrer) == IF shouldPromoteToVip(referrer) THEN TRUE ELSE referrer.isVip

\* lines 66-85: write the counter and the flag computed from the row read earlier
recordReferralUpdate(p) ==
    LET pr == proc[p]
        ref == pr.referrer
    IN /\ pr.pc = "ref_update"
       /\ entries' = [entries EXCEPT ![ref.id].successfulReferrals = NewCount(ref),
                                     ![ref.id].isVip = NewVip(ref)]
       /\ proc' = [proc EXCEPT ![p] =
              Handback(pr, IF shouldPromoteToVip(ref) THEN "promoted" ELSE "credited",
                       ReferralRes)]
       /\ UNCHANGED <<referrals, sessions, checkouts, nextCode, insertIdVisible, returned, outbox>>
       /\ UNCHANGED schedVars

(***************************************************************************)
(* processReferral(referralCode, newSubscriberId) of server/referral.ts     *)
(***************************************************************************)
MaxReferrals == 4     \* processReferral is not called for a referrer credited this often
NInviteCodes == 1     \* codes callers of createReferralInvitation choose from
MaxInvitations == 2   \* createReferralInvitation calls that reach the insert

InviteCodes == 1..NInviteCodes

\* createReferralInvitation calls so far: their records and the ids their failed
\* inserts used up
Invitations ==
    Cardinality({i \in 1..Len(referrals) :
                    referrals[i] = NoRef \/ referrals[i].referralCode \in InviteCodes})

\* select().from(referralTracking).where(eq(referralCode, code)).limit(1)
FindByReferralCode(code) == {i \in ReferralIds : referrals[i].referralCode = code}

\* createReferralInvitation (lines 45-66): one awaited insert of a record with
\* referredId NULL; a code some record carries already fails on the unique index
\* of referralCode and the call answers false
createReferralInvitation(p, referrerId, e, code) ==
    LET pr == [Idle EXCEPT !.op = "invite", !.email = e]
        row == [id |-> Len(referrals) + 1, referrerId |-> referrerId, referredId |-> 0,
                referredEmail |-> e, referralCode |-> code]
    IN /\ Free(p)
       /\ Invitations < MaxInvitations
       /\ IF FindByReferralCode(code) # {}
          THEN /\ referrals' \in {referrals, Append(referrals, NoRef)}
               /\ proc' = [proc EXCEPT ![p] =
                      Finish([pr EXCEPT !.refRes = "failed"], ReferralRes)]
          ELSE /\ referrals' = Append(referrals, row)
               /\ proc' = [proc EXCEPT ![p] =
                      Finish([pr EXCEPT !.refRes = "invited"], ReferralRes)]
       /\ UNCHANGED <<entries, sessions, checkouts, nextCode, insertIdVisible, returned, outbox>>
       /\ UNCHANGED schedVars

\* lines 77-86: find the referral record by its own code
processReferral(p, code, newId) ==
    LET found == FindByReferralCode(code)
        rec == IF found = {} THEN NoRef ELSE referrals[SetMin(found)]
        pr == [Idle EXCEPT !.op = "process", !.lastId = newId, !.ref = rec,
                           !.email = rec.referredEmail]
    IN /\ Free(p)
       /\ rec.referrerId \in EntryIds =>
              entries[rec.referrerId].successfulReferrals < MaxReferrals
       /\ IF rec = NoRef
          THEN proc' = [proc EXCEPT ![p] =
                   Finish([pr EXCEPT !.refRes = "unknown"], ReferralRes)]
          ELSE proc' = [proc EXCEPT ![p] = [pr EXCEPT !.pc = "pr_link"]]
       /\ UNCHANGED <<entries, referrals, sessions, checkouts, nextCode, insertIdVisible, returned, outbox>>
       /\ UNCHANGED schedVars

\* lines 90-97: set referredId (and joinedAt) on the record with the id read
processReferralLink(p) ==
    LET pr == proc[p]
    IN /\ pr.pc = "pr_link"
       /\ referrals' = [referrals EXCEPT ![pr.ref.id].referredId = pr.lastId]
       /\ proc' = [proc EXCEPT ![p].pc = "pr_read"]
       /\ UNCHANGED <<entries, sessions, checkouts, nextCode, insertIdVisible, returned, outbox>>
       /\ UNCHANGED schedVars

\* lines 100-104: read the referrer's counter
processReferralRead(p) ==
    LET pr == proc[p]
        r == pr.ref.referrerId
    IN /\ pr.pc = "pr_read"
       /\ IF r \in EntryIds
          THEN proc' = [proc EXCEPT ![p].pc = "pr_update",
                            ![p].referrer = [id |-> r,
                                successfulReferrals |-> entries[r].successfulReferrals,
                                isVip |-> entries[r].isVip]]
          ELSE proc' = [proc EXCEPT ![p] =
                   Finish([pr EXCEPT !.refRes = "processed"], ReferralRes)]
       /\ UNCHANGED <<entries, referrals, sessions, checkouts, nextCode, insertIdVisible, returned, outbox>>
       /\ UNCHANGED schedVars

\* lines 106-123: write the counter read plus one, and isVip: true
processReferralUpdate(p) ==
    LET pr == proc[p]
        r == pr.referrer.id
    IN /\ pr.pc = "pr_update"
       /\ entries' = [entries EXCEPT
              ![r].successfulReferrals = pr.referrer.successfulReferrals + 1,
              ![r].isVip = TRUE]
       /\ proc' = [proc EXCEPT ![p] =
              Finish([pr EXCEPT !.refRes = "processed"], ReferralRes)]
       /\ UNCHANGED <<referrals, sessions, checkouts, nextCode, insertIdVisible, returned, outbox>>
       /\ UNCHANGED schedVars

\* a database statement of recordReferral throws: the select at lines 12-16 or
\* 39-48, the insert at 58-64 or the update at 73-80
recordReferralThrows(p) ==
    LET pr == proc[p]
    IN /\ pr.pc \in {"ref_verify", "ref_existing", "ref_insert", "ref_update"}
       /\ proc' = [proc EXCEPT ![p] = Handback(pr, "failed", ErrorRes)]
       /\ UNCHANGED <<entries, referrals, sessions, checkouts, nextCode, insertIdVisible, returned, outbox>>
       /\ UNCHANGED schedVars

(***************************************************************************)
(* Receipt / boarding pass and internal notification, then the answer      *)
(***************************************************************************)
\* payment.ts lines 146-160 and 202-213
SignupResult(pr) ==
    [kind |-> "signup", queuePosition |-> pr.qp, referralCode |-> pr.code,
     isVip |-> FALSE, successfulReferrals |-> 0]

\* senders that throw when the provider rejects the message
NotifyThrows(p, delivered) ==
    LET pr == [proc[p] EXCEPT !.sent = IF delivered THEN "ok" ELSE "failed"]
    IN /\ pr.pc = "notify"
       /\ outbox' = [outbox EXCEPT ![pr.email].mail = IF delivered THEN @ + 1 ELSE @]
       /\ proc' = [proc EXCEPT ![p] =
              IF delivered THEN [pr EXCEPT !.pc = "notify_internal"]
              ELSE Finish(pr, ErrorRes)]
       /\ UNCHANGED <<entries, referrals, sessions, checkouts, nextCode, insertIdVisible, returned>>
       /\ UNCHANGED schedVars

\* payment.ts 149 / 203: await sendPaymentReceiptEmail / sendBoardingPassEmail.
\* The senders of email.ts answer {success: delivered} and never throw (lines
\* 103-106, 108-126, 137-140, 142-160); the answer is not looked at
Notify(p, delivered) ==
    LET pr == [proc[p] EXCEPT !.sent = IF delivered THEN "ok" ELSE "failed"]
    IN /\ pr.pc = "notify"
       /\ outbox' = [outbox EXCEPT ![pr.email].mail = IF delivered THEN @ + 1 ELSE @]
       /\ proc' = [proc EXCEPT ![p] = [pr EXCEPT !.pc = "notify_internal"]]
       /\ UNCHANGED <<entries, referrals, sessions, checkouts, nextCode, insertIdVisible, returned>>
       /\ UNCHANGED schedVars

\* the mail provider accepts the receipt / boarding pass
notify(p) == Notify(p, TRUE)

\* the mail provider rejects the receipt / boarding pass, or no API key is configured
notifyUndelivered(p) == Notify(p, FALSE)

\* payment.ts 152-160 / 206-213: await sendInternalNotification (email.ts 12-15,
\* 31-44: an answer, never a throw, not looked at), then the result is returned
InternalNotification(p, delivered) ==
    LET pr == [proc[p] EXCEPT !.sent = IF delivered THEN @ ELSE "failed"]
    IN /\ pr.pc = "notify_internal"
       /\ outbox' = [outbox EXCEPT ![pr.email].internal = IF delivered THEN @ + 1 ELSE @]
       /\ proc' = [proc EXCEPT ![p] = Finish(pr, SignupResult(pr))]
       /\ returned' = Returned(pr, SignupResult(pr))
       /\ UNCHANGED <<entries, referrals, sessions, checkouts, nextCode, insertIdVisible>>
       /\ UNCHANGED schedVars

\* the mail provider accepts the internal notification
sendInternalNotification(p) == InternalNotification(p, TRUE)

\* the mail provider rejects the internal notification
sendInternalNotificationUndelivered(p) == InternalNotification(p, FALSE)

\* the answer leaves the server and the handler ends
respond(p) ==
    /\ proc[p].pc = "done"
    /\ proc' = [proc EXCEPT ![p] = Idle]
    /\ UNCHANGED <<entries, referrals, sessions, checkouts, nextCode, insertIdVisible, returned, outbox>>
    /\ UNCHANGED schedVars

(***************************************************************************)
(* Specifications of the signup flow                                       *)
(***************************************************************************)
InitSched ==
    /\ now = 0
    /\ tracking = EmptyBag
    /\ prefs = {}
    /\ mail = EmptyBag
    /\ run = <<>>

Init ==
    /\ entries = <<>>
    /\ referrals = <<>>
    /\ sessions = <<>>
    /\ checkouts = EmptyBag
    /\ nextCode = 1
    /\ insertIdVisible \in BOOLEAN
    /\ proc = [p \in Procs |-> Idle]
    /\ returned = [e \in Emails |-> {}]
    /\ outbox = [e \in Emails |-> NoMail]
    /\ InitSched

\* the checkout provider and the visitor on its hosted page
Provider == \E s \in SessionIds : SessionPaid(s) \/ SessionExpired(s)

\* paymentRouter.createCheckout: a call arrives
CheckoutStart == \E e \in Emails, rc \in KnownCodes \cup {NoCode, BadCode} :
                     createCheckoutSession(e, rc)

\* a createCheckout call in flight resumes after its await
CheckoutStep == \E c \in BagToSet(checkouts) :
                    checkoutSessionsCreate(c) \/ checkoutSessionsCreateFails(c)

Checkout == CheckoutStart \/ CheckoutStep

\* a request arrives; a client may present any session id
SignupStart(p) ==
    \/ \E s \in SessionIds \cup {NoSession} : confirmPayment(p, s)
    \/ \E s \in SessionIds : stripeWebhook(p, s)
    \/ \E e \in Emails : joinWaitlistWithoutPayment(p, e)

\* a handler in flight resumes after an await
SignupStep(p) ==
    \/ hpsSelect(p)
    \/ hpsInsert(p)
    \/ joinPosition(p)
    \/ joinInsert(p)
    \/ generateReferralCodeSelect(p)
    \/ generateReferralCodeUpdate(p)
    \/ recordReferralVerify(p)
    \/ recordReferralExisting(p)
    \/ recordReferralInsert(p)
    \/ recordReferralUpdate(p)
    \/ notify(p)
    \/ sendInternalNotification(p)
    \/ respond(p)

\* requests interleave freely between their awaits
Next ==
    \/ Provider
    \/ Checkout
    \/ \E p \in Procs : SignupStart(p) \/ SignupStep(p)

Spec == Init /\ [][Next]_vars

\* one request at a time: each call runs to its answer before the next starts
SeqCheckout == (AllQuiet /\ CheckoutStart) \/ CheckoutStep
SeqSignupStart == AllQuiet /\ SignupStart(1)

NextSeq ==
    \/ Provider
    \/ SeqCheckout
    \/ SeqSignupStart
    \/ SignupStep(1)

SpecSeq == Init /\ [][NextSeq]_vars

\* one client at a time calls createCheckout, pays, calls confirmPayment or
\* joinWaitlistWithoutPayment
SeqConfirmPayment == AllQuiet /\ \E s \in SessionIds \cup {NoSession} : confirmPayment(1, s)
SeqJoin == AllQuiet /\ \E e \in Emails : joinWaitlistWithoutPayment(1, e)

\* ... and a statement of recordReferral may throw
NextSeqFaulty ==
    \/ \E s \in SessionIds : SessionPaid(s)
    \/ SeqCheckout
    \/ SeqConfirmPayment
    \/ SeqJoin
    \/ SignupStep(1)
    \/ recordReferralThrows(1)

SpecSeqFaulty == Init /\ [][NextSeqFaulty]_vars

\* signups that carry no referral code
PlainCheckout ==
    \/ AllQuiet /\ \E e \in Emails : createCheckoutSession(e, NoCode)
    \/ CheckoutStep

PlainStep(p) ==
    \/ hpsSelect(p)
    \/ hpsInsert(p)
    \/ joinPosition(p)
    \/ joinInsert(p)
    \/ generateReferralCodeSelect(p)
    \/ generateReferralCodeUpdate(p)
    \/ notify(p)
    \/ notifyUndelivered(p)
    \/ sendInternalNotification(p)
    \/ sendInternalNotificationUndelivered(p)
    \/ respond(p)

\* ... one at a time, while the mail provider may reject any message
NextSeqUndelivered ==
    \/ \E s \in SessionIds : SessionPaid(s)
    \/ PlainCheckout
    \/ SeqConfirmPayment
    \/ SeqJoin
    \/ PlainStep(1)

SpecSeqUndelivered == Init /\ [][NextSeqUndelivered]_vars

\* one client at a time; the visitors of the skip-payment path may have arrived
\* with a referral code
SeqSkipPayment ==
    AllQuiet /\ \E e \in Emails, rc \in KnownCodes \cup {NoCode, BadCode} :
                    handleSkipPayment(1, e, rc)

NextSeqSkip ==
    \/ \E s \in SessionIds : SessionPaid(s)
    \/ SeqCheckout
    \/ SeqConfirmPayment
    \/ SeqSkipPayment
    \/ SignupStep(1)

SpecSeqSkip == Init /\ [][NextSeqSkip]_vars

(***************************************************************************)
(* One address with several checkout sessions, each opened with the code   *)
(* of another referrer: the state after NOffers skip-payment signups of    *)
(* other addresses and NOffers createCheckout calls for address 1          *)
(***************************************************************************)
NOffers == 2          \* referrers, and sessions of address 1 carrying their codes

Referrer(i) ==
    [email |-> NEmails + i, queuePosition |-> i, paymentStatus |-> "skipped",
     stripePaymentIntentId |-> "null", referralCode |-> i, isVip |-> FALSE,
     successfulReferrals |-> 0, createdAt |-> 0]

InitOffers ==
    /\ entries = [i \in 1..NOffers |-> Referrer(i)]
    /\ referrals = <<>>
    /\ sessions = [k \in 1..NOffers |->
                      [email |-> 1, queuePosition |-> NumToStr(NOffers + 1),
                       referralCode |-> k, status |-> "open"]]
    /\ checkouts = EmptyBag
    /\ nextCode = NOffers + 1
    /\ insertIdVisible \in BOOLEAN
    /\ proc = [p \in Procs |-> Idle]
    /\ returned = [e \in Emails |-> {}]
    /\ outbox = [e \in Emails |-> NoMail]
    /\ InitSched

\* a handlePaymentSuccess call in flight resumes after an await
PaidStep(p) ==
    \/ hpsSelect(p)
    \/ hpsInsert(p)
    \/ generateReferralCodeSelect(p)
    \/ generateReferralCodeUpdate(p)
    \/ recordReferralVerify(p)
    \/ recordReferralExisting(p)
    \/ recordReferralInsert(p)
    \/ recordReferralUpdate(p)
    \/ notify(p)
    \/ sendInternalNotification(p)
    \/ respond(p)

\* the sessions are paid, and are confirmed by the client callback and by the
\* webhook, in any order and overlapping
NextOffers ==
    \/ \E s \in SessionIds : SessionPaid(s)
    \/ \E p \in Procs, s \in SessionIds : confirmPayment(p, s)
    \/ \E p \in Procs, s \in SessionIds : stripeWebhook(p, s)
    \/ \E p \in Procs : PaidStep(p)

SpecOffers == InitOffers /\ [][NextOffers]_vars

(***************************************************************************)
(* Specifications of the referral ledger: signups of the referrers and     *)
(* direct calls of recordReferral                                          *)
(***************************************************************************)
ReferCall(p, referred) ==
    \/ \E e \in Referrers : joinWaitlistWithoutPayment(p, e)
    \/ \E code \in KnownCodes \cup {BadCode}, e \in referred : recordReferral(p, code, e)

ReferStart(p) == ReferCall(p, RefEmails)

ReferStep(p) ==
    \/ joinPosition(p)
    \/ joinInsert(p)
    \/ generateReferralCodeSelect(p)
    \/ generateReferralCodeUpdate(p)
    \/ recordReferralExisting(p)
    \/ recordReferralInsert(p)
    \/ recordReferralUpdate(p)
    \/ notify(p)
    \/ sendInternalNotification(p)
    \/ respond(p)

\* recordReferral calls overlap
NextRef == \E p \in Procs : ReferCall(p, OverlapEmails) \/ ReferStep(p)

SpecRef == Init /\ [][NextRef]_vars

\* recordReferral calls do not overlap
SeqReferStart == AllQuiet /\ ReferStart(1)

NextRefSeq ==
    \/ SeqReferStart
    \/ ReferStep(1)

SpecRefSeq == Init /\ [][NextRefSeq]_vars

(***************************************************************************)
(* Drip campaign scheduler (server/emailSequence.ts)                       *)
(***************************************************************************)
NSubscribers == 2     \* entries on the waitlist when the campaign runs
NRuns == 2            \* scheduler runs that may be in progress together
TicksPerDay == 2      \* clock ticks in a day: runs start at different times of day
MaxNow == 14          \* the clock stops here
MaxNowOverlap == 6    \* ... and here while runs overlap
MaxFaults == 1        \* rejected sends and failed tracking writes, in total

Runs == 1..NRuns

\* emailSequenceConfig
emailSequenceConfig ==
    << [day |-> 1, type |-> "welcome"],
       [day |-> 3, type |-> "content_preview"],
       [day |-> 7, type |-> "boarding_reminder"],
       [day |-> 14, type |-> "exclusive_offer"] >>

EmailTypes == {emailSequenceConfig[k].type : k \in 1..Len(emailSequenceConfig)}

\* n * 24 * 60 * 60 * 1000 ms, in ticks
Days(n) == n * TicksPerDay

\* the largest offset of the table: the clock of the whole campaign stops here
Horizon ==
    Days(SetMax({emailSequenceConfig[k].day : k \in 1..Len(emailSequenceConfig)}))

\* a run of the job: the statement it waits at, the config served, the
\* subscribers still to serve, the clock value read at lines 79-80 and the
\* answer of the send whose tracking insert is awaited
RunIdle == [pc |-> "idle", cfg |-> 0, eligible |-> <<>>, at |-> 0, sent |-> FALSE]

\* rows of email_sequence_tracking for one entry and one email type
TrackingRows(id, type) ==
    {rec \in BagToSet(tracking) : rec.waitlistEntryId = id /\ rec.emailType = type}

RECURSIVE BagCount(_, _)
BagCount(B, S) == IF S = {} THEN 0
                  ELSE LET x == CHOOSE y \in S : TRUE
                       IN CopiesIn(x, B) + BagCount(B, S \ {x})

TrackingCount(id, type) == BagCount(tracking, TrackingRows(id, type))

\* a selection that also applies the lower end nDaysAgo of the one-day window
CreatedInWindow(id, day, at) ==
    /\ at - Days(day) <= entries[id].createdAt
    /\ entries[id].createdAt < at - Days(day - 1)

\* lt(waitlistEntries.createdAt, nDaysAgoPlus1), nDaysAgoPlus1 = Date.now() at
\* line 80 minus (day - 1) days
CreatedBefore(id, day, at) == entries[id].createdAt < at - Days(day - 1)

\* isNull(select id from email_sequence_tracking where entry and type match):
\* a scalar subquery, an error when it yields more than one row
SubqueryFails(day, type, at) ==
    \E id \in EntryIds : CreatedBefore(id, day, at) /\ TrackingCount(id, type) > 1

Eligible(day, type, at) ==
    {id \in EntryIds : CreatedBefore(id, day, at) /\ TrackingCount(id, type) = 0}

RECURSIVE Ascending(_)
\* the selected rows in primary-key order
Ascending(S) == IF S = {} THEN <<>>
                ELSE <<SetMin(S)>> \o Ascending(S \ {SetMin(S)})

\* a preferences check that sends to everybody
UnsubscribedIgnored(id) ==
    \E row \in prefs : row.waitlistEntryId = id /\ row.unsubscribed /\ ~row.unsubscribed

\* prefs.length > 0 && prefs[0].unsubscribed
Unsubscribed(id) == \E row \in prefs : row.waitlistEntryId = id /\ row.unsubscribed

\* sendEmailsForDay is entered for config k: lines 79-80 read the clock and
\* the selection of lines 82-102 is sent off and awaited
Enter(k) ==
    [pc |-> "query", cfg |-> k, eligible |-> <<>>, at |-> now, sent |-> FALSE]

\* the for loop of processEmailSequence moves to the next config in the turn
\* in which the last awaited call of the config before it answered, or ends
NextConfig(r, k) ==
    IF k < Len(emailSequenceConfig) THEN Enter(k + 1) ELSE RunIdle

\* processEmailSequence lines 45-46: cron starts the daily job, which awaits
\* getDb
processEmailSequence(r) ==
    /\ run[r].pc = "idle"
    /\ run' = [run EXCEPT ![r].pc = "db"]
    /\ UNCHANGED <<now, tracking, prefs, mail>>
    /\ UNCHANGED signupVars

\* lines 46-56: getDb answers with a database and the job enters
\* sendEmailsForDay for the first config
getDb(r) ==
    /\ run[r].pc = "db"
    /\ run' = [run EXCEPT ![r] = Enter(1)]
    /\ UNCHANGED <<now, tracking, prefs, mail>>
    /\ UNCHANGED signupVars

\* lines 46-50: getDb answers null; the job logs "Database not available" and
\* returns, no statement throws
getDbNull(r) ==
    /\ run[r].pc = "db"
    /\ run' = [run EXCEPT ![r] = RunIdle]
    /\ UNCHANGED <<now, tracking, prefs, mail>>
    /\ UNCHANGED signupVars

\* sendEmailsForDay lines 82-106: the database answers the eligibility query
\* of one config, with the bounds computed at lines 79-80 when the function
\* was entered; an error of the query is caught by processEmailSequence
\* (lines 55-59)
sendEmailsForDay(r) ==
    LET k == run[r].cfg
        c == emailSequenceConfig[k]
        at == run[r].at
    IN /\ run[r].pc = "query"
       /\ IF SubqueryFails(c.day, c.type, at) \/ Eligible(c.day, c.type, at) = {}
          THEN run' = [run EXCEPT ![r] = NextConfig(r, k)]
          ELSE run' = [run EXCEPT ![r] = [run[r] EXCEPT !.pc = "each",
                           !.eligible = Ascending(Eligible(c.day, c.type, at))]]
       /\ UNCHANGED <<now, tracking, prefs, mail>>
       /\ UNCHANGED signupVars

\* sends the provider rejected and tracking inserts that threw, so far
Faults ==
    BagCount(mail, {m \in BagToSet(mail) : ~m.delivered \/ m.recorded = "no"})

\* the loop moves to the next selected subscriber, or to the next config
Advance(r) ==
    IF Len(run[r].eligible) > 1
    THEN [run[r] EXCEPT !.pc = "each", !.eligible = Tail(@), !.sent = FALSE]
    ELSE NextConfig(r, run[r].cfg)

\* lines 110-120: the preferences lookup answers with an unsubscribed row and
\* the subscriber is skipped
skipUnsubscribed(r) ==
    /\ run[r].pc = "each"
    /\ Unsubscribed(Head(run[r].eligible))
    /\ run' = [run EXCEPT ![r] = Advance(r)]
    /\ UNCHANGED <<now, tracking, prefs, mail>>
    /\ UNCHANGED signupVars

\* lines 110-129: the preferences lookup answers with no row or an opted-in
\* row, and sendEmail is called and awaited
lookupPreferences(r) ==
    /\ run[r].pc = "each"
    /\ ~Unsubscribed(Head(run[r].eligible))
    /\ run' = [run EXCEPT ![r].pc = "send"]
    /\ UNCHANGED <<now, tracking, prefs, mail>>
    /\ UNCHANGED signupVars

\* whether the tracking row is written after sendEmail answered `delivered`:
\* the answer of sendEmail (email.ts lines 67-90, an object, never a throw)
\* is not looked at (emailSequence.ts lines 124-137)
WritesRecord(delivered) == TRUE

\* the row of the mail log for a send of the run: recorded is "pending"
\* while the tracking insert is awaited, then "yes" or "no"
MailRow(r, recorded) ==
    [to |-> Head(run[r].eligible), type |-> emailSequenceConfig[run[r].cfg].type,
     delivered |-> run[r].sent, recorded |-> recorded]

\* lines 124-137: sendEmail answers (email.ts line 84 behind it), delivered or
\* not, and the tracking insert is sent off and awaited
sendEmail(r, delivered) ==
    /\ run[r].pc = "send"
    /\ delivered \/ Faults < MaxFaults
    /\ run' = [run EXCEPT ![r].pc = "track", ![r].sent = delivered]
    /\ mail' = mail (+) SetToBag({[MailRow(r, "pending") EXCEPT !.delivered = delivered]})
    /\ UNCHANGED <<now, tracking, prefs>>
    /\ UNCHANGED signupVars

\* lines 132-147: the tracking insert answers; a throwing insert is caught and
\* logged and the loop goes on
trackEmail(r, insertOk) ==
    LET c == emailSequenceConfig[run[r].cfg]
        written == WritesRecord(run[r].sent) /\ insertOk
    IN /\ run[r].pc = "track"
       /\ insertOk \/ ~run[r].sent \/ Faults < MaxFaults
       /\ mail' = (mail (-) SetToBag({MailRow(r, "pending")}))
                     (+) SetToBag({MailRow(r, IF written THEN "yes" ELSE "no")})
       /\ tracking' = IF written
                      THEN tracking (+) SetToBag({[waitlistEntryId |-> Head(run[r].eligible),
                               sequenceDay |-> c.day, emailType |-> c.type]})
                      ELSE tracking
       /\ run' = [run EXCEPT ![r] = Advance(r)]
       /\ UNCHANGED <<now, prefs>>
       /\ UNCHANGED signupVars

\* a lookup whose error leaves the loop over the subscribers
lookupFailsAborts(r) ==
    /\ run[r].pc = "each"
    /\ run' = [run EXCEPT ![r] = NextConfig(r, run[r].cfg)]
    /\ UNCHANGED <<now, tracking, prefs, mail>>
    /\ UNCHANGED signupVars

\* lines 111-115: the preferences lookup throws; caught at line 142, the loop
\* goes on with the next selected subscriber
lookupFails(r) ==
    /\ run[r].pc = "each"
    /\ run' = [run EXCEPT ![r] = Advance(r)]
    /\ UNCHANGED <<now, tracking, prefs, mail>>
    /\ UNCHANGED signupVars

\* lines 82-102: the selection query throws; caught by processEmailSequence
\* (lines 57-59), whose loop goes on with the next config
queryFails(r) ==
    /\ run[r].pc = "query"
    /\ run' = [run EXCEPT ![r] = NextConfig(r, run[r].cfg)]
    /\ UNCHANGED <<now, tracking, prefs, mail>>
    /\ UNCHANGED signupVars

\* time passes
TickTo(max) ==
    /\ now < max
    /\ now' = now + 1
    /\ UNCHANGED <<tracking, prefs, mail, run>>
    /\ UNCHANGED signupVars

Tick == TickTo(MaxNow)

\* the waitlist after NSubscribers skip-payment signups at time 0, each
\* subscriber with no preferences row, an opted-in row or an unsubscribed row
Subscriber(i) ==
    [email |-> i, queuePosition |-> i, paymentStatus |-> "skipped",
     stripePaymentIntentId |-> "null", referralCode |-> i, isVip |-> FALSE, successfulReferrals |-> 0, createdAt |-> 0]

PrefRows == [waitlistEntryId : 1..NSubscribers, unsubscribed : BOOLEAN]

InitCampaign ==
    /\ entries = [i \in 1..NSubscribers |-> Subscriber(i)]
    /\ referrals = <<>>
    /\ sessions = <<>>
    /\ checkouts = EmptyBag
    /\ nextCode = NSubscribers + 1
    /\ insertIdVisible = FALSE
    /\ proc = [p \in Procs |-> Idle]
    /\ returned = [e \in Emails |-> {}]
    /\ outbox = [e \in Emails |-> NoMail]
    /\ now = 0
    /\ tracking = EmptyBag
    /\ prefs \in {P \in SUBSET PrefRows :
                    \A a, b \in P : a.waitlistEntryId = b.waitlistEntryId => a = b}
    /\ mail = EmptyBag
    /\ run = [r \in Runs |-> RunIdle]

RunStep(r) ==
    \/ processEmailSequence(r)
    \/ getDb(r)
    \/ getDbNull(r)
    \/ sendEmailsForDay(r)
    \/ skipUnsubscribed(r)
    \/ lookupPreferences(r)
    \/ \E delivered \in BOOLEAN : sendEmail(r, delivered)
    \/ \E insertOk \in BOOLEAN : trackEmail(r, insertOk)

\* runs of the job may overlap
NextSched == TickTo(MaxNowOverlap) \/ \E r \in Runs : RunStep(r)

SpecSched == InitCampaign /\ [][NextSched]_vars

\* the job is single-instance: one run at a time
NextSchedOne == TickTo(Horizon) \/ RunStep(1)

SpecSchedOne == InitCampaign /\ [][NextSchedOne]_vars

\* a database statement of the run throws
RunFault(r) == lookupFails(r) \/ queryFails(r)

\* the job is single-instance: one run at a time, database errors included
NextSchedSeq == Tick \/ RunStep(1) \/ RunFault(1)

SpecSchedSeq == InitCampaign /\ [][NextSchedSeq]_vars

(***************************************************************************)
(* The whole campaign: the job is started by cron, on some days and not on  *)
(* others, at any time of the day; a run is over long before the clock      *)
(* moves on, no statement throws, the mail provider may reject messages     *)
(***************************************************************************)
\* time passes between two runs
TickBetweenRuns ==
    /\ run[1].pc = "idle"
    /\ now < Horizon
    /\ now' = now + 1
    /\ UNCHANGED <<tracking, prefs, mail, run>>
    /\ UNCHANGED signupVars

\* a run that gets a database and in which no statement throws (a rejected
\* message is no throw)
RunStepOk(r) ==
    \/ processEmailSequence(r)
    \/ getDb(r)
    \/ sendEmailsForDay(r)
    \/ skipUnsubscribed(r)
    \/ lookupPreferences(r)
    \/ \E delivered \in BOOLEAN : sendEmail(r, delivered)
    \/ trackEmail(r, TRUE)

NextCampaign == TickBetweenRuns \/ RunStepOk(1)

SpecCampaign == InitCampaign /\ [][NextCampaign]_vars

\* ... while the database may be unavailable to a run and the selection query or
\* the preferences lookup may throw; sends and tracking writes do not
NextCampaignFaulty ==
    TickBetweenRuns \/ RunStepOk(1) \/ getDbNull(1) \/ RunFault(1)

SpecCampaignFaulty == InitCampaign /\ [][NextCampaignFaulty]_vars

\* cron starts the job again and again, a started run goes on to its end,
\* whether it gets a database and whether its statements throw or not, and time
\* does not stand still
SpecCampaignFaultyFair ==
    /\ InitCampaign /\ [][NextCampaignFaulty]_vars
    /\ WF_vars(RunStepOk(1) \/ getDbNull(1) \/ RunFault(1))
    /\ SF_vars(TickBetweenRuns)

(***************************************************************************)
(* Every operation on the entry store: the request handlers and the ledger  *)
(* functions, one call at a time, and, from its own initial state, the      *)
(* scheduler, which shares only the entries table with them and reads it    *)
(***************************************************************************)
SeqProcessReferral ==
    /\ AllQuiet
    /\ \E code \in {rec.referralCode : rec \in ReferralRows} \cup InviteCodes,
          newId \in EntryIds :
           processReferral(1, code, newId)

\* a caller names any entry as referrer, or an id no entry has
SeqCreateReferralInvitation ==
    /\ AllQuiet
    /\ \E referrerId \in EntryIds \cup {Len(entries) + 1}, e \in Emails,
          code \in InviteCodes :
           createReferralInvitation(1, referrerId, e, code)

ProcessStep(p) ==
    \/ processReferralLink(p)
    \/ processReferralRead(p)
    \/ processReferralUpdate(p)

InitStore == Init \/ InitCampaign

\* no scheduler run is set up in the states of Init, and no request arrives in
\* the states of InitCampaign
NextStore ==
    \/ run = <<>> /\ Provider
    \/ run = <<>> /\ SeqCheckout
    \/ run = <<>> /\ SeqSignupStart
    \/ run = <<>> /\ SignupStep(1)
    \/ run = <<>> /\ SeqProcessReferral
    \/ run = <<>> /\ SeqCreateReferralInvitation
    \/ run = <<>> /\ ProcessStep(1)
    \/ run # <<>> /\ Tick
    \/ run # <<>> /\ RunStep(1)
    \/ run # <<>> /\ RunFault(1)

SpecStore == InitStore /\ [][NextStore]_vars

(***************************************************************************)
(* Properties of the signup flow and the referral ledger                   *)
(***************************************************************************)
Positions == {entries[i].queuePosition : i \in EntryIds}
HoldersOf(k) == {i \in EntryIds : entries[i].queuePosition = k}
RecordsOf(r, e) == {rec \in ReferralRows : rec.referrerId = r /\ rec.referredEmail = e}
CountOf(r, e) == Cardinality(RecordsOf(r, e))
RECURSIVE SumCounts(_, _)
SumCounts(r, S) == IF S = {} THEN 0
                   ELSE LET e == CHOOSE x \in S : TRUE
                        IN CountOf(r, e) + SumCounts(r, S \ {e})
RecordsOfReferrer(r) == SumCounts(r, RefEmails \cup Emails)

\* C1: once N concurrent skip-payment signups with distinct emails have all
\* completed, the stored queue positions are exactly 1..N, each held once.
C1_ConcurrentJoinsGapless ==
    (AllQuiet /\ \A i \in EntryIds : entries[i].paymentStatus = "skipped")
        => \A k \in 1..Cardinality(EntryIds) : Cardinality(HoldersOf(k)) = 1

\* C2: two successive signups of one email, through the paid and the skip-payment
\* path in any combination, are answered with the same queue position, and the
\* store then holds exactly one entry for that email, at that position.
C2_SameEmailSamePosition ==
    \A e \in Emails :
        returned[e] # {} =>
            /\ Cardinality(returned[e]) = 1
            /\ Cardinality(FindByEmail(e)) = 1
            /\ \A i \in FindByEmail(e) : returned[e] = {entries[i].queuePosition}

\* an answer from the idempotency guard of one path for an entry the other path made
C2_Witness ==
    \E e \in Emails, i \in EntryIds :
        /\ entries[i].email = e
        /\ entries[i].paymentStatus = "skipped"
        /\ proc[1].pc = "done" /\ proc[1].op = "confirm" /\ proc[1].email = e
        /\ proc[1].res.kind = "signup"
        /\ returned[e] = {proc[1].res.queuePosition}

\* C3: an entry with paymentStatus completed exists only for a checkout session
\* the provider reports paid.
C3_CompletedOnlyIfPaid ==
    \A i \in EntryIds :
        entries[i].paymentStatus = "completed" =>
            \E s \in SessionIds : /\ sessions[s].email = entries[i].email
                                  /\ sessions[s].status = "paid"

\* C4: no two stored entries hold the same queue position, for every sequential
\* order of createCheckout, confirmPayment and joinWithoutPayment calls.
C4_PositionsUnique ==
    \A i, j \in EntryIds : i # j => entries[i].queuePosition # entries[j].queuePosition

\* C5: a recordReferral call that succeeds raises the referrer's counter by exactly
\* one and leaves one record for (referrer, referred email); a call for a pair
\* already recorded answers success=false and leaves counter, VIP flag and the
\* records as they were (one record for the pair, as many records as the counter).
C5_ReferralCountsOnce ==
    \A p \in Procs :
        (proc[p].pc = "done" /\ proc[p].op = "refer" /\ proc[p].refRes # "invalid") =>
            LET before == proc[p].referrer
                r == before.id
            IN /\ CountOf(r, proc[p].email) = 1
               /\ RecordsOfReferrer(r) = entries[r].successfulReferrals
               /\ proc[p].refRes \in {"credited", "promoted"} =>
                      entries[r].successfulReferrals = before.successfulReferrals + 1
               /\ proc[p].refRes = "duplicate" =>
                      /\ entries[r].successfulReferrals = before.successfulReferrals
                      /\ entries[r].isVip = before.isVip

\* a second redemption for the same pair has been answered success=false
C5_Witness ==
    \E p \in Procs :
        /\ proc[p].pc = "done" /\ proc[p].op = "refer" /\ proc[p].refRes = "duplicate"
        /\ entries[proc[p].referrer.id].successfulReferrals >= 1

C6_AtAnswer ==
    \A p \in Procs :
        (proc[p].pc = "done" /\ proc[p].op = "refer"
            /\ proc[p].refRes \in {"credited", "promoted"}) =>
            LET before == proc[p].referrer
                r == before.id
            IN /\ (proc[p].refRes = "promoted") <=>
                      (before.successfulReferrals = 2 /\ entries[r].successfulReferrals = 3)
               /\ (proc[p].refRes = "promoted") <=> (~before.isVip /\ entries[r].isVip)

C6_StaysVip == \A i \in EntryIds : entries[i].isVip => entries'[i].isVip

\* C6: over non-overlapping recordReferral calls the referrer's VIP flag turns true
\* exactly on the call that moves successfulReferrals from 2 to 3, only that call
\* answers referrerPromotedToVip=true, and the flag stays true afterwards.
C6_VipExactlyAtThree == []C6_AtAnswer /\ [][C6_StaysVip]_vars

\* a referral credited after the promotion, the flag still true
C6_Witness ==
    \E p \in Procs :
        /\ proc[p].pc = "done" /\ proc[p].op = "refer" /\ proc[p].refRes = "credited"
        /\ entries[proc[p].referrer.id].successfulReferrals > VipThreshold
        /\ entries[proc[p].referrer.id].isVip

\* C7: once an entry's isVip is true no later step sets it back to false, also
\* when recordReferral calls for the same referrer overlap.
C7_VipMonotonic == [][\A i \in EntryIds : entries[i].isVip => entries'[i].isVip]_vars

(***************************************************************************)
(* Properties of the drip campaign scheduler                               *)
(***************************************************************************)
MailTo(id, type) == {m \in BagToSet(mail) : m.to = id /\ m.type = type}
DeliveredCount(id, type) ==
    BagCount(mail, {m \in MailTo(id, type) : m.delivered})
NoRecordOfAnyType(id) == \A type \in EmailTypes : TrackingCount(id, type) = 0
OptedIn(id) ==
    /\ \E row \in prefs : row.waitlistEntryId = id
    /\ ~Unsubscribed(id)
NewMail(id) ==
    {m \in BagToSet(mail') : /\ m.to = id /\ m.recorded = "pending"
                             /\ CopiesIn(m, mail') > CopiesIn(m, mail)}

\* C8: there is at most one tracking record and at most one email sent per
\* (entry, email type), over any number of runs and also when two runs overlap;
\* stated for the histories in which no tracking write has failed.
C8_NoDoubleSend ==
    (\A m \in BagToSet(mail) : m.recorded # "no") =>
        \A id \in EntryIds, type \in EmailTypes :
            /\ TrackingCount(id, type) <= 1
            /\ DeliveredCount(id, type) <= 1

\* C9: an entry created exactly 3 days ago, with no tracking record of any type
\* and an opted-in preferences row, is sent a content_preview email by the run
\* that serves it, and no email of another type.
C9_ThreeDaysOnlyPreview ==
    [][\A id \in EntryIds :
          (/\ now = entries[id].createdAt + Days(3)
           /\ NoRecordOfAnyType(id)
           /\ OptedIn(id))
              => \A m \in NewMail(id) : m.type = "content_preview"]_vars

\* C10: a send and its tracking record form a unit: when delivery fails no
\* tracking record is written for that (entry, type).
C10_RecordOnlyIfDelivered ==
    \A m \in BagToSet(mail) : m.recorded = "yes" => m.delivered

HasPrefsRow(id) == \E row \in prefs : row.waitlistEntryId = id
MarkedUnsubscribed(id) ==
    \E row \in prefs : row.waitlistEntryId = id /\ row.unsubscribed = TRUE
AnyMailTo(id) == {m \in BagToSet(mail) : m.to = id}

\* no mail and no tracking record for an entry marked unsubscribed
C11_NothingForUnsubscribed ==
    \A id \in EntryIds :
        MarkedUnsubscribed(id) => (AnyMailTo(id) = {} /\ NoRecordOfAnyType(id))

\* the run that has selected an entry without a preferences row goes on, when
\* the lookup has answered, to send that entry the email of the offset served
C11_NoRowIsServed ==
    \A r \in Runs :
        (/\ run[r].pc = "each"
         /\ ~HasPrefsRow(Head(run[r].eligible))
         /\ run'[r] # run[r])
            => /\ run'[r].pc = "send"
               /\ run'[r].cfg = run[r].cfg
               /\ run'[r].eligible = run[r].eligible

\* C11: an entry whose preferences row has unsubscribed=true is sent no email
\* and gets no tracking record from any run, whatever its age and for each of the
\* four offsets; an entry without a preferences row is treated as subscribed:
\* every run that selects it sends it the email.
C11_UnsubscribedNeverMailed ==
    []C11_NothingForUnsubscribed /\ [][C11_NoRowIsServed]_vars

\* runs have served a subscriber without a preferences row with each of the four
\* emails, the day-14 email included, and have left the older, unsubscribed
\* subscriber they selected with it alone
C11_Witness ==
    \E u, v \in EntryIds :
        /\ u < v
        /\ MarkedUnsubscribed(u) /\ AnyMailTo(u) = {} /\ NoRecordOfAnyType(u)
        /\ ~HasPrefsRow(v)
        /\ \A type \in EmailTypes :
               TrackingCount(v, type) = 1 /\ DeliveredCount(v, type) = 1

\* C12: a join for an email that already has an entry is never answered with an
\* error: joinWithoutPayment and confirmPayment answer with the existing entry's
\* data, also when two requests for one new email both pass the existence check
\* and one of them loses the insert to the unique-email constraint.
C12_DuplicateNeverAnError ==
    \A p \in Procs :
        (/\ proc[p].pc = "done"
         /\ proc[p].op \in {"join", "confirm"}
         /\ FindByEmail(proc[p].email) # {})
            => proc[p].res.kind = "signup"

C13_AtAnswer ==
    \A p \in Procs :
        (/\ proc[p].pc = "done"
         /\ proc[p].op = "confirm"
         /\ proc[p].refRes \in {"invalid", "failed"})
            => /\ proc[p].res.kind = "signup"
               /\ \E i \in FindByEmail(proc[p].email) :
                      /\ entries[i].paymentStatus = "completed"
                      /\ entries[i].queuePosition = proc[p].res.queuePosition

C13_OnlyCreditChanges ==
    \A i \in EntryIds :
        (\/ entries'[i].successfulReferrals # entries[i].successfulReferrals
         \/ entries'[i].isVip # entries[i].isVip)
            => \E p \in Procs : /\ proc[p].pc = "ref_update"
                                /\ proc'[p].refRes \in {"credited", "promoted"}

\* C13: a broken referral never blocks the paying signup: when the code in the
\* session metadata is unknown or recordReferral fails otherwise, confirmPayment
\* still answers success, the new entry is stored as completed at the answered
\* position, and no entry's successfulReferrals or VIP flag changes.
C13_BrokenReferralNeverBlocks == []C13_AtAnswer /\ [][C13_OnlyCreditChanges]_vars

\* a paid signup answered although its referral code was unknown, while another
\* entry holds a code and keeps its counter
C13_Witness ==
    \E p \in Procs, i \in EntryIds :
        /\ proc[p].pc = "done" /\ proc[p].op = "confirm"
        /\ proc[p].refRes = "invalid" /\ proc[p].refCode = BadCode
        /\ proc[p].res.kind = "signup"
        /\ entries[i].email # proc[p].email
        /\ entries[i].referralCode # NoCode
        /\ entries[i].successfulReferrals = 0

\* C14: notification delivery is best-effort: when the receipt, the boarding pass
\* or the internal notification is not delivered, confirmPayment and
\* joinWithoutPayment still answer success and the entry created before the send
\* stays stored, with the status of its path and at the answered position.
C14_DeliveryFailureNeverBlocks ==
    \A p \in Procs :
        (proc[p].pc = "done" /\ proc[p].sent = "failed") =>
            /\ proc[p].res.kind = "signup"
            /\ \E i \in FindByEmail(proc[p].email) :
                   /\ entries[i].queuePosition = proc[p].res.queuePosition
                   /\ entries[i].paymentStatus =
                          IF proc[p].op = "join" THEN "skipped" ELSE "completed"

\* a paid signup answered with its position although nothing was delivered
C14_Witness ==
    \E p \in Procs :
        /\ proc[p].pc = "done" /\ proc[p].op = "confirm" /\ proc[p].sent = "failed"
        /\ outbox[proc[p].email] = NoMail
        /\ proc[p].res.kind = "signup"
        /\ \E i \in FindByEmail(proc[p].email) : entries[i].paymentStatus = "completed"

\* C15: there is at most one referral record per (referrer, referred email), over
\* every sequence and interleaving of confirmPayment calls that carry referral
\* codes.
C15_OneRecordPerPair ==
    \A r \in EntryIds, e \in Emails : CountOf(r, e) <= 1

\* a second confirmation of a referred signup, answered from the stored entry
\* while the record of its referral is in the ledger
C15_Witness ==
    \E p \in Procs, r \in EntryIds :
        /\ proc[p].pc = "done" /\ proc[p].op = "confirm"
        /\ proc[p].refCode = entries[r].referralCode /\ proc[p].refCode # NoCode
        /\ proc[p].refRes = "none"
        /\ CountOf(r, proc[p].email) = 1

\* C16: every successful confirmPayment or joinWithoutPayment call answers with
\* the queuePosition, referralCode, isVip and successfulReferrals stored on the
\* entry of the submitted email when the call returns, and the referral code it
\* answers with is stored on that entry and on no other.
C16_AnswerIsStoredEntry ==
    \A p \in Procs :
        (/\ proc[p].pc = "done"
         /\ proc[p].op \in {"join", "confirm"}
         /\ proc[p].res.kind = "signup")
            => \E i \in FindByEmail(proc[p].email) :
                   /\ proc[p].res.queuePosition = entries[i].queuePosition
                   /\ proc[p].res.referralCode = entries[i].referralCode
                   /\ proc[p].res.isVip = entries[i].isVip
                   /\ proc[p].res.successfulReferrals = entries[i].successfulReferrals
                   /\ \A j \in EntryIds \ {i} :
                          entries[j].referralCode # proc[p].res.referralCode

\* C17: minting a referral code is an idempotent get-or-create keyed by entry id:
\* generateReferralCode never replaces a stored code, so an entry's stored code
\* never changes once set, also when two calls for one entry overlap.
C17_CodeNeverReplaced ==
    [][\A i \in EntryIds :
          entries[i].referralCode # NoCode =>
              entries'[i].referralCode = entries[i].referralCode]_vars

\* C18: an entry's queue position is assigned once, at creation, and never
\* reassigned: no step of confirmPayment, joinWithoutPayment, recordReferral,
\* generateReferralCode, processReferral or a scheduler run changes the
\* queuePosition (or the email) of an existing entry, and no entry is deleted.
C18_PositionNeverReassigned ==
    [][/\ Len(entries') >= Len(entries)
       /\ \A i \in EntryIds :
              /\ entries'[i] # NoEntry
              /\ entries'[i].queuePosition = entries[i].queuePosition
              /\ entries'[i].email = entries[i].email]_vars

\* an entry that got its code, was credited by recordReferral and then by
\* processReferral, next to an entry made later
C18_Witness ==
    \E i, j \in EntryIds :
        /\ i < j
        /\ entries[i].referralCode # NoCode
        /\ entries[i].successfulReferrals >= 2
        /\ entries[i].isVip
        /\ proc[1].pc = "done" /\ proc[1].op = "process" /\ proc[1].refRes = "processed"

\* C19: every entry selected for the email of offset d in a run at time now was
\* created inside [now - d days, now - d days + 1 day): not more than d days
\* before the run, and not less than d - 1 days before it.
C19_SelectedInsideWindow ==
    [][\A r \in Runs :
          (run[r].pc = "query" /\ run'[r].pc = "each") =>
              LET d == emailSequenceConfig[run[r].cfg].day
              IN \A k \in 1..Len(run'[r].eligible) :
                     LET created == entries[run'[r].eligible[k]].createdAt
                     IN /\ run[r].at - Days(d) <= created
                        /\ created < run[r].at - Days(d) + Days(1)]_vars

\* C20: a failure while one entry is processed (the preference lookup, the send
\* or the tracking write throws) does not abort the run: the run goes on with the
\* next entry selected for the offset, after the last one with the next offset,
\* and a failed selection query is followed by the next offset's query.
C20_FailureDoesNotAbort ==
    [][\A r \in Runs :
          LET k == run[r].cfg
              last == Len(emailSequenceConfig)
              nextOffset == \/ k < last /\ run'[r].pc = "query" /\ run'[r].cfg = k + 1
                                       /\ run'[r].eligible = <<>>
                            \/ k = last /\ run'[r].pc = "idle"
              goesOn == IF Len(run[r].eligible) > 1
                        THEN /\ run'[r].pc = "each" /\ run'[r].cfg = k
                             /\ run'[r].eligible = Tail(run[r].eligible)
                        ELSE nextOffset
              sameEntry == /\ run'[r].cfg = k
                           /\ run'[r].eligible = run[r].eligible
          IN /\ (run[r].pc = "each" /\ run'[r] # run[r]) =>
                    (run'[r].pc = "send" /\ sameEntry) \/ goesOn
             /\ (run[r].pc = "send" /\ run'[r] # run[r]) =>
                    run'[r].pc = "track" /\ sameEntry
             /\ (run[r].pc = "track" /\ run'[r] # run[r]) => goesOn
             /\ (run[r].pc = "query" /\ run'[r] # run[r]) =>
                    \/ /\ run'[r].pc = "each" /\ run'[r].cfg = k
                       /\ run'[r].eligible # <<>>
                    \/ nextOffset]_vars

\* the tracking write for one subscriber threw and the run is serving the next
\* subscriber selected for the same email
C20_Witness ==
    \E m \in BagToSet(mail) :
        /\ m.recorded = "no"
        /\ TrackingCount(m.to, m.type) = 0
        /\ run[1].pc = "each"
        /\ emailSequenceConfig[run[1].cfg].type = m.type
        /\ Head(run[1].eligible) > m.to

\* C21: the promotion threshold is 3 on every path that credits a referral: after
\* any sequence of recordReferral and processReferral calls an entry with isVip
\* true has at least 3 successful referrals.
C21_VipOnlyAtThreshold ==
    \A i \in EntryIds : entries[i].isVip => entries[i].successfulReferrals >= VipThreshold

ReferralInProgress(p) ==
    proc[p].pc \in {"ref_verify", "ref_existing", "ref_insert", "ref_update"}

\* C22: whenever no recordReferral call is in progress each entry's
\* successfulReferrals equals the number of referral records that name it as
\* referrer, also after calls for one referrer and different referred emails
\* have overlapped; the counter never decreases.
C22_CounterMatchesRecords ==
    /\ []((\A p \in Procs : ~ReferralInProgress(p)) =>
              \A r \in EntryIds : entries[r].successfulReferrals = RecordsOfReferrer(r))
    /\ [][\A i \in EntryIds :
              entries'[i].successfulReferrals >= entries[i].successfulReferrals]_vars

C23_Gapless == \A k \in 1..getTotalWaitlistCount : HoldersOf(k) # {}

C23_InsertWithinNext ==
    \A i \in 1..Len(entries') :
        (i > Len(entries) /\ entries'[i] # NoEntry) =>
            entries'[i].queuePosition <= getTotalWaitlistCount + 1

\* C23: the queue positions held by stored entries have no gap: every integer
\* from 1 to the current maximum position is held by at least one entry, for
\* every interleaving of createCheckout, confirmPayment and joinWithoutPayment;
\* a position stored by an insert is never greater than the maximum plus one.
C23_PositionsGapless == []C23_Gapless /\ [][C23_InsertWithinNext]_vars

\* a paid entry stored at the position its session carried from checkout time,
\* after a skip-payment entry took that position in between
C23_Witness ==
    \E i, j \in EntryIds :
        /\ j < i
        /\ entries[j].paymentStatus = "skipped"
        /\ entries[i].paymentStatus = "completed"
        /\ entries[i].queuePosition = entries[j].queuePosition
        /\ entries[i].queuePosition = getTotalWaitlistCount

RecordsNaming(e) ==
    Cardinality({rec \in ReferralRows : rec.referredEmail = e})

C24_AtMostOnce ==
    \A e \in Emails :
        outbox[e].mail <= 1 /\ outbox[e].internal <= 1 /\ RecordsNaming(e) <= 1

C24_CreditedByOneRecord ==
    \A i \in EntryIds :
        entries'[i].successfulReferrals # entries[i].successfulReferrals =>
            /\ entries'[i].successfulReferrals = entries[i].successfulReferrals + 1
            /\ \E p \in Procs : /\ proc[p].pc = "ref_update" /\ proc'[p] # proc[p]
                                /\ proc[p].referrer.id = i
                                /\ RecordsNaming(proc[p].email) = 1

\* C24: the side effects of a signup happen at most once per email: when the
\* webhook and the client callback both confirm one paid session, in either order
\* or concurrently, the receipt and the internal notification are sent at most
\* once and the referrer named in the metadata is credited at most once.
C24_SideEffectsOnce == []C24_AtMostOnce /\ [][C24_CreditedByOneRecord]_vars

\* the webhook and the client callback both passed the existence check for one
\* session; one lost the insert, the other sent the receipt and credited the
\* referrer
C24_Witness ==
    \E p, q \in Procs :
        /\ proc[p].pc = "done" /\ proc[p].op = "webhook" /\ proc[p].res.kind = "received"
        /\ proc[p].refRes = "credited"
        /\ proc[q].pc = "done" /\ proc[q].op = "confirm" /\ proc[q].res.kind = "error"
        /\ proc[q].email = proc[p].email
        /\ outbox[proc[p].email] = [mail |-> 1, internal |-> 1]
        /\ RecordsNaming(proc[p].email) = 1
        /\ entries[proc[p].referrer.id].successfulReferrals = 1

C29_StatusOfItsPath ==
    \A i \in EntryIds :
        /\ entries[i].paymentStatus \in {"completed", "skipped"}
        /\ entries[i].paymentStatus = "skipped" => entries[i].stripePaymentIntentId = "null"

C29_StatusKept ==
    \A i \in EntryIds :
        /\ entries'[i].paymentStatus = entries[i].paymentStatus
        /\ entries'[i].stripePaymentIntentId = entries[i].stripePaymentIntentId

\* C29: an entry's paymentStatus is fixed at creation and is completed or skipped:
\* no stored entry is pending or failed, and an entry created by joinWithoutPayment
\* stays skipped, with no payment reference, after a later successful
\* confirmPayment for the same email.
C29_StatusFixedAtCreation == []C29_StatusOfItsPath /\ [][C29_StatusKept]_vars

\* a paid session confirmed for an email that had joined without payment
C29_Witness ==
    \E i \in EntryIds, s \in SessionIds :
        /\ entries[i].paymentStatus = "skipped"
        /\ entries[i].stripePaymentIntentId = "null"
        /\ sessions[s].email = entries[i].email /\ sessions[s].status = "paid"
        /\ proc[1].pc = "done" /\ proc[1].op = "confirm"
        /\ proc[1].email = entries[i].email
        /\ proc[1].res.kind = "signup"

\* C30: a signup through the skip-payment path never applies a referral: no step
\* of joinWithoutPayment creates or changes a referral record or changes the
\* successfulReferrals or isVip of an entry, also for a visitor who arrived with
\* a referral code.
C30_SkipPathNoReferral ==
    [][\A p \in Procs :
          (proc'[p] # proc[p] /\ (proc[p].op = "join" \/ proc'[p].op = "join")) =>
              /\ referrals' = referrals
              /\ \A i \in EntryIds :
                     /\ entries'[i].successfulReferrals = entries[i].successfulReferrals
                     /\ entries'[i].isVip = entries[i].isVip]_vars

\* a visitor who arrived with the code of an entry has joined without payment:
\* the code's owner has no referral to its credit
C30_Witness ==
    \E p \in Procs, j \in EntryIds :
        /\ proc[p].pc = "done" /\ proc[p].op = "join" /\ proc[p].res.kind = "signup"
        /\ proc[p].refCode # NoCode
        /\ proc[p].refCode = entries[j].referralCode
        /\ entries[j].email # proc[p].email
        /\ FindByEmail(proc[p].email) # {}
        /\ entries[j].successfulReferrals = 0 /\ ~entries[j].isVip
        /\ referrals = <<>>

\* C28: no entry credits itself: no referral record has a referred email equal to
\* the email of its referrer entry; a referral code exists only once its owner's
\* entry exists, and a confirmPayment for an existing email returns before any
\* referral is recorded.
C28_NoSelfCredit ==
    \A rec \in ReferralRows :
        rec.referrerId \in EntryIds => entries[rec.referrerId].email # rec.referredEmail

\* the owner of a code paid through a session that carries that code: the
\* confirmation was answered from the stored entry and no referral was recorded
C28_Witness ==
    \E p \in Procs, i \in EntryIds :
        /\ proc[p].pc = "done" /\ proc[p].op = "confirm" /\ proc[p].res.kind = "signup"
        /\ entries[i].email = proc[p].email
        /\ entries[i].referralCode # NoCode
        /\ proc[p].refCode = entries[i].referralCode
        /\ proc[p].refRes = "none"
        /\ referrals = <<>>

RECURSIVE CreditsOf(_)
\* the sum of successfulReferrals over the entries with an id in S
CreditsOf(S) == IF S = {} THEN 0
                ELSE LET i == CHOOSE x \in S : TRUE
                     IN entries[i].successfulReferrals + CreditsOf(S \ {i})

ReferredEmails == {rec.referredEmail : rec \in ReferralRows}

\* C27: a referred email credits at most one referrer: over every sequence and
\* interleaving of confirmations, also of several sessions for one email that
\* carry different referral codes, at most one referral record has a given
\* referred email, and the credits of all referrers together are no more than
\* the referred emails on record.
C27_OneReferrerPerEmail ==
    /\ \A e \in Emails : RecordsNaming(e) <= 1
    /\ CreditsOf(EntryIds) <= Cardinality(ReferredEmails)

\* two sessions of one address with the codes of two referrers were confirmed:
\* the first credited its referrer, the second was answered without a referral
C27_Witness ==
    \E p, q \in Procs :
        /\ proc[p].pc = "done" /\ proc[p].refRes = "credited"
        /\ proc[q].pc = "done" /\ proc[q].op \in {"confirm", "webhook"}
        /\ proc[q].email = proc[p].email
        /\ proc[q].refCode # proc[p].refCode /\ proc[q].refCode # NoCode
        /\ proc[q].refRes = "none"
        /\ RecordsNaming(proc[p].email) = 1
        /\ CreditsOf(EntryIds) = 1

HasAllFour(id) == \A type \in EmailTypes : TrackingCount(id, type) >= 1

C25_AllServed == \A id \in EntryIds : ~Unsubscribed(id) => HasAllFour(id)

SmallerOffsets(k) ==
    {j \in 1..Len(emailSequenceConfig) :
        emailSequenceConfig[j].day < emailSequenceConfig[k].day}

C26_Ordered ==
    \A id \in EntryIds, k \in 1..Len(emailSequenceConfig) :
        TrackingCount(id, emailSequenceConfig[k].type) >= 1 =>
            \A j \in SmallerOffsets(k) : TrackingCount(id, emailSequenceConfig[j].type) >= 1

C26_WrittenInOrder ==
    \A id \in EntryIds, k \in 1..Len(emailSequenceConfig) :
        TrackingCount(id, emailSequenceConfig[k].type)'
                > TrackingCount(id, emailSequenceConfig[k].type) =>
            \A j \in SmallerOffsets(k) : TrackingCount(id, emailSequenceConfig[j].type) >= 1

\* C26: drip emails reach each entry in the order of the offset table: over runs
\* in which no send and no record write throws, an entry that has a tracking record
\* for the email of offset d also has one for every email of a smaller offset,
\* written no later.
C26_InOffsetOrder == []C26_Ordered /\ [][C26_WrittenInOrder]_vars
====
